---- MODULE Spec2Model ----
(***************************************************************************)
(* A model of jen_rx (src/src/lib.rs): the decoder osc_msg_to_events, that *)
(* turns the argument list of an OSC message into Jen events, and the      *)
(* State that folds those events into three maps.                          *)
(*                                                                         *)
(* An OSC argument is a record [t, v]: t is the variant of osc::Type       *)
(* ("Int", "Float") and v its value.  A float is carried through the       *)
(* decoder untouched, so its value is a token of FloatVals.  Option<T> is  *)
(* the record None or Some(x).  A panic (Option::expect on None) is an     *)
(* outcome of its own: the call does not return.                           *)
(***************************************************************************)
EXTENDS Integers, Sequences, FiniteSets, TLC

VARIABLES
    msg,                \* the osc::Message handed to osc_msg_to_events
    result,             \* what that call did: its return value, stderr, panic
    pc,                 \* where the caller is: "call" and "done" around a call
                        \* of the decoder, "idle" and "returned" around a
                        \* call on the State, "panicked" after a panic
    note_ons,           \* State.note_ons: Instrument -> Instant
    playhead_bangs,     \* State.playhead_bangs: Measure -> Instant
    playhead_positions, \* State.playhead_positions: Measure -> f32
    clock,              \* the latest Instant that Instant::now() returned
    panicked,           \* the thread that owns the State has panicked
    last,               \* the call on the State that has just returned, with
                        \* its arguments and the Instants it was given
    hist,               \* what the updates applied so far: the instruments
                        \* and measures they time-stamped, the last position
                        \* they gave each measure
    frame               \* the locals of a call of osc_msg_to_events that is
                        \* followed one loop iteration at a time

vars == <<msg, result, pc, note_ons, playhead_bangs, playhead_positions,
          clock, panicked, last, hist, frame>>

----------------------------------------------------------------------------
(* Bounds of the model.                                                    *)

\* The longest argument list drawn from every combination of ArgVals.
MaxLen == 4
\* The longest tail that follows a PLAYHEAD_POSITION block of floats.
MaxTail == 2
\* The latest Instant the clock reaches.
MaxClock == 2
\* The most messages in one osc::Packet.
MaxMsgs == 2
\* The most events in one batch handed to update_by_events.
MaxBatch == 2
MaxCode == 110      \* from_i32 is applied to the integers -MaxCode..MaxCode

----------------------------------------------------------------------------
(* Option<T>, osc::Type and the types of lib.rs.                           *)

None == [some |-> FALSE]
Some(x) == [some |-> TRUE, val |-> x]

OscInt(i) == [t |-> "Int", v |-> i]
OscFloat(f) == [t |-> "Float", v |-> f]
OscString(x) == [t |-> "String", v |-> x]

Instrument == {"Snare", "Kick", "Ride", "Ghost", "Bass", "Melodic", "Chordal", "Atmos"}
Measure == {"Phrase", "Segment", "Bar", "Minim", "Beat", "Quaver", "SemiQuaver"}

\* The variants in the order of their declaration: the variant of code c is
\* the (c + 1)-th.
InstrumentOfCode ==
    <<"Snare", "Kick", "Ride", "Ghost", "Bass", "Melodic", "Chordal", "Atmos">>
MeasureOfCode ==
    <<"Phrase", "Segment", "Bar", "Minim", "Beat", "Quaver", "SemiQuaver">>

NoteOn(inst) == [kind |-> "NoteOn", inst |-> inst]
PlayheadBang(meas) == [kind |-> "PlayheadBang", meas |-> meas]
PlayheadPosition(meas, pos) == [kind |-> "PlayheadPosition", meas |-> meas, pos |-> pos]

NOTE_ON == 100
PLAYHEAD_BANG == 101
PLAYHEAD_POSITION == 102

\* Measure::TOTAL_VARIANTS one short of the number of variants.
Measure_TOTAL_VARIANTS_short == 7 - 1
Measure_TOTAL_VARIANTS == 7

\* Instrument::from_i32 with its codes counted from 1.
Instrument_from_i32_off_by_one(i) ==
    CASE i = 1 -> Some("Snare")
      [] i = 2 -> Some("Kick")
      [] i = 3 -> Some("Ride")
      [] i = 4 -> Some("Ghost")
      [] i = 5 -> Some("Bass")
      [] i = 6 -> Some("Melodic")
      [] i = 7 -> Some("Chordal")
      [] i = 8 -> Some("Atmos")
      [] OTHER -> None

\* Instrument::from_i32.
Instrument_from_i32(i) ==
    CASE i = 0 -> Some("Snare")
      [] i = 1 -> Some("Kick")
      [] i = 2 -> Some("Ride")
      [] i = 3 -> Some("Ghost")
      [] i = 4 -> Some("Bass")
      [] i = 5 -> Some("Melodic")
      [] i = 6 -> Some("Chordal")
      [] i = 7 -> Some("Atmos")
      [] OTHER -> None

\* A Measure::from_i32 that takes every integer modulo the number of variants.
Measure_from_i32_wraps(i) ==
    Some(MeasureOfCode[(i % 7) + 1])

\* Measure::from_i32.
Measure_from_i32(i) ==
    CASE i = 0 -> Some("Phrase")
      [] i = 1 -> Some("Segment")
      [] i = 2 -> Some("Bar")
      [] i = 3 -> Some("Minim")
      [] i = 4 -> Some("Beat")
      [] i = 5 -> Some("Quaver")
      [] i = 6 -> Some("SemiQuaver")
      [] OTHER -> None

----------------------------------------------------------------------------
(* osc_msg_to_events.  The iterator over the arguments is the number `pos` *)
(* of arguments it has handed out; `arg` is the Option the outer 'modes    *)
(* loop matches on; `events` is the vector built so far.                   *)

\* The outcome of a call that returned its events; `stderr` holds what
\* eprintln! wrote.
Returned(events, stderr) ==
    [returned |-> TRUE, events |-> events, stderr |-> stderr, panic |-> "none"]

\* The outcome of a call that panicked in Option::expect: nothing is returned.
Panicked(message) ==
    [returned |-> FALSE, events |-> <<>>, stderr |-> <<>>, panic |-> message]

\* int_is_mode without the test of PLAYHEAD_POSITION.
int_is_mode_without_position(i) ==
    i = NOTE_ON \/ i = PLAYHEAD_BANG

\* int_is_mode.
int_is_mode(i) ==
    i = NOTE_ON \/ i = PLAYHEAD_BANG \/ i = PLAYHEAD_POSITION

\* An iter.next() that leaves the argument it returns in the iterator.
iter_next_peeks(args, pos) ==
    IF pos < Len(args)
    THEN [item |-> Some(args[pos + 1]), pos |-> pos]
    ELSE [item |-> None, pos |-> pos]

\* iter.next(): the next argument, if there is one, and the iterator after it.
iter_next(args, pos) ==
    IF pos < Len(args)
    THEN [item |-> Some(args[pos + 1]), pos |-> pos + 1]
    ELSE [item |-> None, pos |-> pos]

\* The pattern `Some(osc::Type::Int(i)) if !int_is_mode(i)`.
is_payload_int(a) ==
    a.some /\ a.val.t = "Int" /\ ~int_is_mode(a.val.v)

\* The pattern `Some(osc::Type::Float(pos))`.
is_float(a) ==
    a.some /\ a.val.t = "Float"

\* The pattern `Some(osc::Type::Int(MODE))` of the outer match.
is_mode_header(a, mode) ==
    a.some /\ a.val.t = "Int" /\ a.val.v = mode

RECURSIVE modes_loop(_, _, _, _)
RECURSIVE note_on_block(_, _, _)
RECURSIVE playhead_bang_block(_, _, _)
RECURSIVE playhead_position_block(_, _, _, _)
RECURSIVE note_on_block_drops_tag(_, _, _)
RECURSIVE playhead_position_block_drops_tag(_, _, _, _)
RECURSIVE playhead_position_block_discards(_, _, _, _)

\* The 'modes loop with a last arm that skips the unexpected argument and
\* goes on instead of breaking.
modes_loop_lenient(args, pos, arg, events) ==
    IF ~arg.some THEN Returned(events, <<>>)
    ELSE IF is_mode_header(arg, NOTE_ON) THEN note_on_block(args, pos, events)
    ELSE IF is_mode_header(arg, PLAYHEAD_BANG) THEN playhead_bang_block(args, pos, events)
    ELSE IF is_mode_header(arg, PLAYHEAD_POSITION)
        THEN playhead_position_block(args, pos, 0, events)
    ELSE LET n == iter_next(args, pos)
         IN  modes_loop(args, n.pos, n.item, events)

\* The arms of `match arg` at the head of the 'modes loop.
modes_loop(args, pos, arg, events) ==
    IF ~arg.some THEN Returned(events, <<>>)
    ELSE IF is_mode_header(arg, NOTE_ON) THEN note_on_block(args, pos, events)
    ELSE IF is_mode_header(arg, PLAYHEAD_BANG) THEN playhead_bang_block(args, pos, events)
    ELSE IF is_mode_header(arg, PLAYHEAD_POSITION)
        THEN playhead_position_block(args, pos, 0, events)
    ELSE Returned(events, <<arg>>)

\* The NOTE_ON arm with a block end that reads one more argument instead of
\* keeping the one that ended the block (`arg = iter.next()` for `arg = a`).
note_on_block_drops_tag(args, pos, events) ==
    LET n == iter_next(args, pos)
        m == iter_next(args, n.pos)
    IN  IF is_payload_int(n.item)
        THEN LET inst == Instrument_from_i32(n.item.val.v)
             IN  IF ~inst.some
                 THEN Panicked("unexpected instrument")
                 ELSE note_on_block(args, n.pos, Append(events, NoteOn(inst.val)))
        ELSE modes_loop(args, m.pos, m.item, events)

\* The NOTE_ON arm: the inner loop over the instrument codes.
note_on_block(args, pos, events) ==
    LET n == iter_next(args, pos)
    IN  IF is_payload_int(n.item)
        THEN LET inst == Instrument_from_i32(n.item.val.v)
             IN  IF ~inst.some
                 THEN Panicked("unexpected instrument")
                 ELSE note_on_block(args, n.pos, Append(events, NoteOn(inst.val)))
        ELSE modes_loop(args, n.pos, n.item, events)

\* The PLAYHEAD_BANG arm: the inner loop over the measure codes.
playhead_bang_block(args, pos, events) ==
    LET n == iter_next(args, pos)
    IN  IF is_payload_int(n.item)
        THEN LET measure == Measure_from_i32(n.item.val.v)
             IN  IF ~measure.some
                 THEN Panicked("unexpected measure")
                 ELSE playhead_bang_block(args, n.pos,
                                          Append(events, PlayheadBang(measure.val)))
        ELSE modes_loop(args, n.pos, n.item, events)

\* The PLAYHEAD_POSITION arm with a block end that reads one more argument
\* instead of keeping the one that ended the block.
playhead_position_block_drops_tag(args, pos, i, events) ==
    IF i >= Measure_TOTAL_VARIANTS
    THEN LET n == iter_next(args, pos)
         IN  modes_loop(args, n.pos, n.item, events)
    ELSE LET measure == Measure_from_i32(i)
             n == iter_next(args, pos)
             m == iter_next(args, n.pos)
         IN  IF ~measure.some
             THEN Panicked("unexpected measure")
             ELSE IF is_float(n.item)
             THEN playhead_position_block(args, n.pos, i + 1,
                      Append(events, PlayheadPosition(measure.val, n.item.val.v)))
             ELSE modes_loop(args, m.pos, m.item, events)

\* The PLAYHEAD_POSITION arm that discards the events of a block that ends
\* before its last float.
playhead_position_block_discards(args, pos, i, events) ==
    IF i >= Measure_TOTAL_VARIANTS
    THEN LET n == iter_next(args, pos)
         IN  modes_loop(args, n.pos, n.item, events)
    ELSE LET measure == Measure_from_i32(i)
             n == iter_next(args, pos)
         IN  IF ~measure.some
             THEN Panicked("unexpected measure")
             ELSE IF is_float(n.item)
             THEN playhead_position_block(args, n.pos, i + 1,
                      Append(events, PlayheadPosition(measure.val, n.item.val.v)))
             ELSE modes_loop(args, n.pos, n.item, SubSeq(events, 1, Len(events) - i))

\* The PLAYHEAD_POSITION arm: `for i in 0..Measure::TOTAL_VARIANTS`, and the
\* `arg = iter.next()` that follows the match when the for loop ran out.
playhead_position_block(args, pos, i, events) ==
    IF i >= Measure_TOTAL_VARIANTS
    THEN LET n == iter_next(args, pos)
         IN  modes_loop(args, n.pos, n.item, events)
    ELSE LET measure == Measure_from_i32(i)
             n == iter_next(args, pos)
         IN  IF ~measure.some
             THEN Panicked("unexpected measure")
             ELSE IF is_float(n.item)
             THEN playhead_position_block(args, n.pos, i + 1,
                      Append(events, PlayheadPosition(measure.val, n.item.val.v)))
             ELSE modes_loop(args, n.pos, n.item, events)

\* An address test that accepts the addresses below "/jen" too.
addr_is_jen_prefix(addr) ==
    addr \in {"/jen", "/jen/x"}

\* The address test of osc_msg_to_events.
addr_is_jen(addr) ==
    addr = "/jen"

\* osc_msg_to_events without the test of the address.
osc_msg_to_events_any_addr(m) ==
    IF ~m.args.some THEN Returned(<<>>, <<>>)
    ELSE LET first == iter_next(m.args.val, 0)
         IN  modes_loop(m.args.val, first.pos, first.item, <<>>)

\* osc_msg_to_events(msg): msg.args is an Option<Vec<osc::Type>>.
osc_msg_to_events(m) ==
    IF ~addr_is_jen(m.addr) THEN Returned(<<>>, <<>>)
    ELSE IF ~m.args.some THEN Returned(<<>>, <<>>)
    ELSE LET first == iter_next(m.args.val, 0)
         IN  modes_loop(m.args.val, first.pos, first.item, <<>>)

----------------------------------------------------------------------------
(* State: its three maps, update_by_events and update_by_osc_packet.       *)

\* An insert that keeps the new entry only.
insert_forgets(map, k, v) ==
    [x \in {k} |-> v]

\* An insert that leaves an entry that exists as it is.
insert_keeps_old(map, k, v) ==
    [x \in DOMAIN map \cup {k} |-> IF x \in DOMAIN map THEN map[x] ELSE v]

\* HashMap::insert: the entry of key k is set, or overwritten, to v.
insert(map, k, v) ==
    [x \in DOMAIN map \cup {k} |-> IF x = k THEN v ELSE map[x]]

\* One turn of the `for event in events` loop of update_by_events.
apply_event(st, event, now) ==
    CASE event.kind = "NoteOn" ->
            [st EXCEPT !.note_ons = insert(@, event.inst, now)]
      [] event.kind = "PlayheadBang" ->
            [st EXCEPT !.playhead_bangs = insert(@, event.meas, now)]
      [] event.kind = "PlayheadPosition" ->
            [st EXCEPT !.playhead_positions = insert(@, event.meas, event.pos)]

RECURSIVE events_loop(_, _, _, _)
events_loop(st, events, k, now) ==
    IF k > Len(events) THEN st
    ELSE events_loop(apply_event(st, events[k], now), events, k + 1, now)

\* An update_by_events that reads the clock again after its first event.
update_by_events_restamps(st, events, now) ==
    IF Len(events) < 2 THEN events_loop(st, events, 1, now)
    ELSE events_loop(events_loop(st, SubSeq(events, 1, 1), 1, now),
                     SubSeq(events, 2, Len(events)), 1, now + 1)

\* update_by_events, `now` being what its one call of Instant::now() returned.
update_by_events(st, events, now) ==
    events_loop(st, events, 1, now)

\* The `for msg in packet.into_msgs()` loop of update_by_osc_packet from the
\* k-th message on; times[k] is what Instant::now() returns in the
\* update_by_events of the k-th message.  A panic of osc_msg_to_events unwinds
\* out of the loop: `calls` is the number of messages applied before it.
RECURSIVE msgs_loop(_, _, _, _)
msgs_loop(st, msgs, k, times) ==
    IF k > Len(msgs) THEN [state |-> st, panicked |-> FALSE, calls |-> k - 1]
    ELSE LET decoded == osc_msg_to_events(msgs[k])
         IN  IF ~decoded.returned
             THEN [state |-> st, panicked |-> TRUE, calls |-> k - 1]
             ELSE msgs_loop(update_by_events(st, decoded.events, times[k]),
                            msgs, k + 1, times)

\* update_by_osc_packet on the messages of the packet, in their order.
update_by_osc_packet(st, msgs, times) ==
    msgs_loop(st, msgs, 1, times)

\* The closure of secs_since_note_on and secs_since_measure without its test
\* `then > now`.
secs_since_unguarded(then, now) ==
    Some(now - then)

\* The closure handed to and_then in secs_since_note_on and in
\* secs_since_measure: a Duration is its number of seconds.
secs_since(then, now) ==
    IF then > now THEN None ELSE Some(now - then)

\* secs_since_note_on returning a zero duration for an instrument that has no
\* entry.
secs_since_note_on_or_zero(st, inst, now) ==
    IF inst \in DOMAIN st.note_ons THEN secs_since(st.note_ons[inst], now) ELSE Some(0)

\* secs_since_note_on, `now` being what its call of Instant::now() returned.
secs_since_note_on(st, inst, now) ==
    IF inst \in DOMAIN st.note_ons THEN secs_since(st.note_ons[inst], now) ELSE None

\* secs_since_measure, `now` being what its call of Instant::now() returned.
secs_since_measure(st, meas, now) ==
    IF meas \in DOMAIN st.playhead_bangs
    THEN secs_since(st.playhead_bangs[meas], now)
    ELSE None

\* playhead_position.
playhead_position(st, meas) ==
    IF meas \in DOMAIN st.playhead_positions
    THEN Some(st.playhead_positions[meas])
    ELSE None


----------------------------------------------------------------------------
(* The messages the decoder is run on.                                     *)

\* Payload and header integers: valid codes of both enumerations (0, 1, 2), a
\* code valid for an Instrument only (7), an invalid code (99), the mode tags.
IntVals == {0, 1, 2, 7, 99, NOTE_ON, PLAYHEAD_BANG, PLAYHEAD_POSITION}
\* Two f32 values, told apart by the events that carry them.
FloatVals == {1, 2}
\* The other variants of osc::Type (String, Blob, ...) are one more variant.
ArgVals ==
    {OscInt(i) : i \in IntVals} \cup {OscFloat(f) : f \in FloatVals} \cup {OscString(0)}

FloatArgs == {OscFloat(f) : f \in FloatVals}

Addrs == {"/jen", "/jen/x"}

Message(addr, args) == [addr |-> addr, args |-> args]

\* Every argument list of at most MaxLen arguments, under every address.
IsGeneralMsg(m) ==
    \E a \in Addrs, k \in 0..MaxLen : \E xs \in [1..k -> ArgVals] :
        m = Message(a, Some(xs))

\* A PLAYHEAD_POSITION tag, up to one full block of floats, and a tail of at
\* most MaxTail arguments.
IsPositionMsg(m) ==
    \E k \in 0..Measure_TOTAL_VARIANTS, j \in 0..MaxTail :
        \E fs \in [1..k -> FloatArgs], tail \in [1..j -> ArgVals] :
            m = Message("/jen", Some(<<OscInt(PLAYHEAD_POSITION)>> \o fs \o tail))

\* A message without arguments.
IsBareMsg(m) ==
    \E a \in Addrs : m = Message(a, None)

----------------------------------------------------------------------------
(* The decoder on its own: one call of osc_msg_to_events on any message.   *)

NotCalled == [returned |-> FALSE, events |-> <<>>, stderr |-> <<>>, panic |-> "none"]

\* No call of osc_msg_to_events is followed by its iterations.
NoFrame == [pos |-> 0, arg |-> None, i |-> 0]

EmptyState ==
    /\ note_ons = <<>>
    /\ playhead_bangs = <<>>
    /\ playhead_positions = <<>>
    /\ clock = 0
    /\ panicked = FALSE
    /\ last = [op |-> "none"]
    /\ hist = [noted |-> {}, banged |-> {}, placed |-> <<>>]

InitDecode ==
    /\ \/ IsGeneralMsg(msg)
       \/ IsPositionMsg(msg)
       \/ IsBareMsg(msg)
    /\ result = NotCalled
    /\ pc = "call"
    /\ frame = NoFrame
    /\ EmptyState

Decode ==
    /\ pc = "call"
    /\ result' = osc_msg_to_events(msg)
    /\ pc' = "done"
    /\ UNCHANGED <<msg, note_ons, playhead_bangs, playhead_positions,
                   clock, panicked, last, hist, frame>>

NextDecode == Decode

SpecDecode == InitDecode /\ [][NextDecode]_vars

----------------------------------------------------------------------------
(* What the claims about the decoder speak of.                             *)

\* The call of osc_msg_to_events on a /jen message with arguments is over.
DecodedJen == pc = "done" /\ msg.addr = "/jen" /\ msg.args.some

IsTag(x) == x.t = "Int" /\ x.v \in {100, 101, 102}
IsFloatArg(x) == x.t = "Float"
\* x is a valid payload code of a block headed by h: an Instrument code 0..7
\* under 100, a Measure code 0..6 under 101.
IsCodeOf(h, x) == x.t = "Int" /\ x.v \in 0..(IF h = 100 THEN 7 ELSE 6)
\* x is a payload integer that is neither a mode tag nor a valid code.
IsUnknownCodeOf(h, x) == x.t = "Int" /\ ~IsTag(x) /\ ~IsCodeOf(h, x)

\* The event a valid payload code c stands for in a block headed by h.
EventOf(h, c) ==
    IF h = 100 THEN NoteOn(InstrumentOfCode[c + 1]) ELSE PlayheadBang(MeasureOfCode[c + 1])

\* The events of the payload codes args[from..to] of a block headed by h.
PayloadEvents(h, args, from, to) ==
    [j \in 1..(to - from + 1) |-> EventOf(h, args[from + j - 1].v)]

\* The events of the floats args[2..k+1] of a PLAYHEAD_POSITION block.
PositionEvents(args, k) ==
    [j \in 1..k |-> PlayheadPosition(MeasureOfCode[j], args[j + 1].v)]

\* args starts with the tag h and n valid payload codes of it.
StartsWithBlock(h, args, n) ==
    /\ n >= 0
    /\ Len(args) >= n + 1
    /\ args[1] = OscInt(h)
    /\ \A j \in 2..(n + 1) : IsCodeOf(h, args[j])

\* args starts with the tag 102 and k floats.
StartsWithFloats(args, k) ==
    /\ k >= 0
    /\ Len(args) >= k + 1
    /\ args[1] = OscInt(102)
    /\ \A j \in 2..(k + 1) : IsFloatArg(args[j])

\* The outcome of decoding the /jen message whose arguments are args[from..].
DecodeFrom(args, from) ==
    osc_msg_to_events(Message("/jen", Some(SubSeq(args, from, Len(args)))))

\* `outcome` is `before` followed by what `rest` is: the same events after
\* `before`, the same report on stderr, the same panic.
Continues(outcome, before, rest) ==
    /\ outcome.returned = rest.returned
    /\ outcome.panic = rest.panic
    /\ outcome.stderr = rest.stderr
    /\ rest.returned => outcome.events = before \o rest.events

----------------------------------------------------------------------------
(* C1: when a NOTE_ON block holds a payload integer that is neither a mode *)
(* tag nor an Instrument code 0..7, or a PLAYHEAD_BANG block one that is   *)
(* neither a mode tag nor a Measure code 0..6, osc_msg_to_events does not  *)
(* abort: it returns exactly the events decoded before that integer.       *)
C1_UnknownCodeIsRecoverable ==
    DecodedJen =>
        \A h \in {100, 101} : \A n \in 0..(Len(msg.args.val) - 2) :
            (/\ StartsWithBlock(h, msg.args.val, n)
             /\ IsUnknownCodeOf(h, msg.args.val[n + 2]))
            => /\ result.returned
               /\ result.panic = "none"
               /\ result.events = PayloadEvents(h, msg.args.val, 2, n + 1)

----------------------------------------------------------------------------
(* C3: for a message whose address is not exactly "/jen", whatever its     *)
(* arguments, osc_msg_to_events returns no event and reports no fault.     *)
C3_OtherAddressDecodesToNothing ==
    (pc = "done" /\ msg.addr # "/jen") => result = Returned(<<>>, <<>>)

\* A message under another address whose arguments would decode to an event
\* and then to an unknown code has been decoded.
C3_Witness ==
    /\ pc = "done"
    /\ msg.addr = "/jen/x"
    /\ msg.args.some
    /\ Len(msg.args.val) = 3
    /\ msg.args.val[1] = OscInt(100)
    /\ msg.args.val[2] = OscInt(2)
    /\ msg.args.val[3] = OscInt(99)

----------------------------------------------------------------------------
(* C4: the tag 102 followed by exactly 7 floats f0..f6 decodes to exactly  *)
(* 7 events, the k-th being PlayheadPosition(Measure of code k, fk), and   *)
(* to no fault.                                                            *)
C4_FullPositionBlock ==
    (DecodedJen /\ Len(msg.args.val) = 8 /\ StartsWithFloats(msg.args.val, 7))
    => result = Returned(PositionEvents(msg.args.val, 7), <<>>)

\* Such a block, with floats that differ, has been decoded.
C4_Witness ==
    /\ DecodedJen
    /\ Len(msg.args.val) = 8
    /\ StartsWithFloats(msg.args.val, 7)
    /\ msg.args.val[2] # msg.args.val[3]
    /\ msg.args.val[7] # msg.args.val[8]
    /\ Len(result.events) = 7

----------------------------------------------------------------------------
(* C5: a PLAYHEAD_POSITION block of only k floats, k in 0..6, followed by  *)
(* a mode tag gives exactly k PlayheadPosition events (codes 0..k-1) and   *)
(* no fault, and the tag is decoded as the header of the next block: what  *)
(* follows the k events is what the arguments from the tag on decode to.   *)
(* When the tag is the last argument or is followed by one valid code of   *)
(* its block, the events are the k positions and the event of that code.   *)
C5_ShortPositionBlock ==
    DecodedJen =>
        \A k \in 0..6 :
            (/\ StartsWithFloats(msg.args.val, k)
             /\ Len(msg.args.val) >= k + 2
             /\ IsTag(msg.args.val[k + 2]))
            => /\ Continues(result, PositionEvents(msg.args.val, k),
                            DecodeFrom(msg.args.val, k + 2))
               /\ Len(msg.args.val) = k + 2
                    => result = Returned(PositionEvents(msg.args.val, k), <<>>)
               /\ \A h \in {100, 101} :
                    (/\ Len(msg.args.val) = k + 3
                     /\ msg.args.val[k + 2] = OscInt(h)
                     /\ IsCodeOf(h, msg.args.val[k + 3]))
                    => result = Returned(
                           PositionEvents(msg.args.val, k)
                               \o <<EventOf(h, msg.args.val[k + 3].v)>>, <<>>)

\* 102, f0, f1, 100, 2 has been decoded.
C5_Witness ==
    /\ DecodedJen
    /\ Len(msg.args.val) = 5
    /\ StartsWithFloats(msg.args.val, 2)
    /\ msg.args.val[4] = OscInt(100)
    /\ msg.args.val[5] = OscInt(2)
    /\ Len(result.events) = 3
    /\ result.events[3] = NoteOn("Ride")

----------------------------------------------------------------------------
(* C6: the tag 100 followed by integers c1..cn, each in 0..7, decodes to   *)
(* exactly n events, the j-th being NoteOn(Instrument of code cj); the tag *)
(* 101 followed by codes in 0..6 gives the PlayheadBang events likewise.   *)
C6_PayloadInOrder ==
    DecodedJen =>
        \A h \in {100, 101} :
            StartsWithBlock(h, msg.args.val, Len(msg.args.val) - 1)
            => result = Returned(
                   PayloadEvents(h, msg.args.val, 2, Len(msg.args.val)), <<>>)

\* A NOTE_ON block of three codes that differ, the last being 7, has been
\* decoded.
C6_Witness ==
    /\ DecodedJen
    /\ Len(msg.args.val) = 4
    /\ StartsWithBlock(100, msg.args.val, 3)
    /\ msg.args.val[2].v = 2
    /\ msg.args.val[3].v = 0
    /\ msg.args.val[4].v = 7
    /\ Len(result.events) = 3

----------------------------------------------------------------------------
(* C7: in a NOTE_ON or PLAYHEAD_BANG block an integer equal to a mode tag  *)
(* ends the block and is used once, as the header of the next block: the   *)
(* outcome is the events of the payload before the tag followed by what    *)
(* the arguments from the tag on decode to.  When the tag is followed by   *)
(* one valid code of its own block, that code is decoded under the new     *)
(* mode.                                                                   *)
C7_TagEndsBlock ==
    DecodedJen =>
        \A h \in {100, 101} : \A n \in 0..(Len(msg.args.val) - 2) :
            (/\ StartsWithBlock(h, msg.args.val, n)
             /\ IsTag(msg.args.val[n + 2]))
            => /\ Continues(result, PayloadEvents(h, msg.args.val, 2, n + 1),
                            DecodeFrom(msg.args.val, n + 2))
               /\ \A g \in {100, 101} :
                    (/\ Len(msg.args.val) = n + 3
                     /\ msg.args.val[n + 2] = OscInt(g)
                     /\ IsCodeOf(g, msg.args.val[n + 3]))
                    => result = Returned(
                           PayloadEvents(h, msg.args.val, 2, n + 1)
                               \o <<EventOf(g, msg.args.val[n + 3].v)>>, <<>>)

\* 100, 1, 101, 2 has been decoded to NoteOn(Kick), PlayheadBang(Bar).
C7_Witness ==
    /\ DecodedJen
    /\ msg.args.val = <<OscInt(100), OscInt(1), OscInt(101), OscInt(2)>>
    /\ result.events = <<NoteOn("Kick"), PlayheadBang("Bar")>>

----------------------------------------------------------------------------
(* C8: when the argument at a block boundary (the first argument, the      *)
(* argument after the 7 floats of a PLAYHEAD_POSITION block, or the        *)
(* non-integer argument that ended a NOTE_ON / PLAYHEAD_BANG block) is not *)
(* one of the integers 100, 101, 102, decoding stops with a fault: the     *)
(* argument is reported, no later argument gives an event, and the events  *)
(* decoded before it are returned.                                         *)
C8_BoundaryFault ==
    DecodedJen =>
        /\ (Len(msg.args.val) >= 1 /\ ~IsTag(msg.args.val[1]))
            => result = Returned(<<>>, <<Some(msg.args.val[1])>>)
        /\ (/\ Len(msg.args.val) >= 9
            /\ StartsWithFloats(msg.args.val, 7)
            /\ ~IsTag(msg.args.val[9]))
            => result = Returned(PositionEvents(msg.args.val, 7),
                                 <<Some(msg.args.val[9])>>)
        /\ \A h \in {100, 101} : \A n \in 0..(Len(msg.args.val) - 2) :
            (/\ StartsWithBlock(h, msg.args.val, n)
             /\ msg.args.val[n + 2].t # "Int")
            => result = Returned(PayloadEvents(h, msg.args.val, 2, n + 1),
                                 <<Some(msg.args.val[n + 2])>>)

\* A NOTE_ON block ended by a float that a valid block follows has been
\* decoded.
C8_Witness ==
    /\ DecodedJen
    /\ msg.args.val = <<OscInt(100), OscFloat(1), OscInt(101), OscInt(2)>>
    /\ result.events = <<>>
    /\ result.stderr = <<Some(OscFloat(1))>>

\* A full PLAYHEAD_POSITION block followed by an eighth float and a valid
\* block has been decoded.
C8_WitnessAfterFloats ==
    /\ DecodedJen
    /\ Len(msg.args.val) = 10
    /\ StartsWithFloats(msg.args.val, 8)
    /\ msg.args.val[10] = OscInt(100)
    /\ Len(result.events) = 7

----------------------------------------------------------------------------
(* C9: when a PLAYHEAD_POSITION block is interrupted after k < 7 floats by *)
(* a value that is neither a float nor a mode tag, the k PlayheadPosition  *)
(* events already produced are kept, the value is reported as a fault and  *)
(* decoding stops there.                                                   *)
C9_InterruptedPositionBlock ==
    DecodedJen =>
        \A k \in 0..6 :
            (/\ StartsWithFloats(msg.args.val, k)
             /\ Len(msg.args.val) >= k + 2
             /\ ~IsFloatArg(msg.args.val[k + 2])
             /\ ~IsTag(msg.args.val[k + 2]))
            => result = Returned(PositionEvents(msg.args.val, k),
                                 <<Some(msg.args.val[k + 2])>>)

\* 102, two floats that differ, 99 and a valid block has been decoded.
C9_Witness ==
    /\ DecodedJen
    /\ Len(msg.args.val) = 5
    /\ StartsWithFloats(msg.args.val, 2)
    /\ msg.args.val[2] # msg.args.val[3]
    /\ msg.args.val[4] = OscInt(99)
    /\ msg.args.val[5] = OscInt(100)
    /\ Len(result.events) = 2

----------------------------------------------------------------------------
(* C10: a mode tag followed at once by another mode tag or by the end of   *)
(* the arguments is a valid empty block: it gives no event and no fault    *)
(* and decoding goes on with the next block.  Arguments that are mode tags *)
(* only decode to nothing; a tag followed by a tag decodes to what the     *)
(* arguments from the second tag on decode to.                             *)
C10_EmptyBlock ==
    DecodedJen =>
        /\ (\A j \in 1..Len(msg.args.val) : IsTag(msg.args.val[j]))
            => result = Returned(<<>>, <<>>)
        /\ (/\ Len(msg.args.val) >= 2
            /\ IsTag(msg.args.val[1])
            /\ IsTag(msg.args.val[2]))
            => result = DecodeFrom(msg.args.val, 2)
        /\ \A h \in {100, 101} :
            (/\ Len(msg.args.val) = 3
             /\ IsTag(msg.args.val[1])
             /\ msg.args.val[2] = OscInt(h)
             /\ IsCodeOf(h, msg.args.val[3]))
            => result = Returned(<<EventOf(h, msg.args.val[3].v)>>, <<>>)

\* 100, 101, 2 has been decoded to PlayheadBang(Bar).
C10_Witness ==
    /\ DecodedJen
    /\ msg.args.val = <<OscInt(100), OscInt(101), OscInt(2)>>
    /\ result.events = <<PlayheadBang("Bar")>>

\* The message that holds only the tag 102 has been decoded.
C10_WitnessLoneTag ==
    /\ DecodedJen
    /\ msg.args.val = <<OscInt(102)>>
    /\ result.returned

----------------------------------------------------------------------------
(* The State and its callers: updates by event batches and by packets, and *)
(* the queries.  Every call of Instant::now() returns an Instant that is   *)
(* no earlier than the one before it.                                      *)

\* The events handed to update_by_events.
StoreEvents ==
    {NoteOn("Kick"), NoteOn("Ride"), PlayheadBang("Bar"),
     PlayheadPosition("Phrase", 1), PlayheadPosition("Phrase", 2)}

\* The messages of the packets: two well-formed ones, one with an unknown
\* Instrument code, one with an argument of an unexpected type, and one under
\* another address.
PacketMsgs ==
    {Message("/jen", Some(<<OscInt(100), OscInt(1)>>)),
     Message("/jen", Some(<<OscInt(101), OscInt(2), OscInt(102), OscFloat(1)>>)),
     Message("/jen", Some(<<OscInt(100), OscInt(2), OscInt(99)>>)),
     Message("/jen", Some(<<OscInt(100), OscInt(2), OscFloat(2), OscInt(100), OscInt(1)>>)),
     Message("/jen/x", Some(<<OscInt(100), OscInt(1)>>))}

\* Readings of a clock that may go back.
Instants_unordered(from, n) ==
    [1..n -> 0..MaxClock]

\* The Instants of n successive calls of Instant::now() from `from` on.
Instants(from, n) ==
    {ts \in [1..n -> from..MaxClock] : \A j \in 1..(n - 1) : ts[j] <= ts[j + 1]}

CurrentState ==
    [note_ons |-> note_ons, playhead_bangs |-> playhead_bangs,
     playhead_positions |-> playhead_positions]

\* The keys the queries are asked for: keys the updates store and keys they
\* never store.
QueryInstruments == {"Snare", "Kick", "Ride"}
QueryMeasures == {"Phrase", "Bar"}

\* The events of the first `calls` messages of the packet, in their order.
RECURSIVE AppliedEvents(_, _)
AppliedEvents(packet, calls) ==
    IF calls = 0 THEN <<>>
    ELSE AppliedEvents(packet, calls - 1) \o osc_msg_to_events(packet[calls]).events

\* The indices of the events of the batch that give measure m a position.
PlacingsOf(events, m) ==
    {j \in 1..Len(events) : events[j].kind = "PlayheadPosition" /\ events[j].meas = m}

\* hist after a batch of events has been applied.
Remember(h, events) ==
    LET placed == {events[j].meas : j \in {k \in 1..Len(events) :
                                             events[k].kind = "PlayheadPosition"}}
    IN  [noted |-> h.noted \cup {events[j].inst : j \in {k \in 1..Len(events) :
                                                     events[k].kind = "NoteOn"}},
         banged |-> h.banged \cup {events[j].meas : j \in {k \in 1..Len(events) :
                                                     events[k].kind = "PlayheadBang"}},
         placed |-> [m \in DOMAIN h.placed \cup placed |->
                        IF m \in placed
                        THEN LET ks == PlacingsOf(events, m)
                             IN  events[CHOOSE k \in ks : \A j \in ks : j <= k].pos
                        ELSE h.placed[m]]]

Init ==
    /\ msg = Message("/jen", None)
    /\ result = NotCalled
    /\ pc = "idle"
    /\ frame = NoFrame
    /\ EmptyState

\* A call of update_by_events on any batch of the given events.
UpdateByEventsOf(Events) ==
    /\ pc = "idle"
    /\ \E n \in 0..MaxBatch : \E events \in [1..n -> Events] :
       \E now \in clock..MaxClock :
        LET st == update_by_events(CurrentState, events, now)
        IN  /\ note_ons' = st.note_ons
            /\ playhead_bangs' = st.playhead_bangs
            /\ playhead_positions' = st.playhead_positions
            /\ clock' = now
            /\ last' = [op |-> "update_by_events", events |-> events, now |-> now]
            /\ hist' = Remember(hist, events)
    /\ pc' = "returned"
    /\ UNCHANGED <<msg, result, panicked, frame>>

UpdateByEvents ==
    UpdateByEventsOf(StoreEvents)

\* A call of update_by_osc_packet on any packet: it returns, or it panics and
\* leaves the State as the messages before the panic made it.
UpdateByOscPacketOf(Msgs) ==
    /\ pc = "idle"
    /\ \E n \in 0..MaxMsgs : \E packet \in [1..n -> Msgs] :
       \E times \in Instants(clock, n) :
        LET r == update_by_osc_packet(CurrentState, packet, times)
        IN  /\ note_ons' = r.state.note_ons
            /\ playhead_bangs' = r.state.playhead_bangs
            /\ playhead_positions' = r.state.playhead_positions
            /\ panicked' = r.panicked
            /\ pc' = IF r.panicked THEN "panicked" ELSE "returned"
            /\ clock' = IF r.calls = 0 THEN clock ELSE times[r.calls]
            /\ last' = [op |-> "update_by_osc_packet", packet |-> packet,
                        times |-> times, start |-> clock]
            /\ hist' = Remember(hist, AppliedEvents(packet, r.calls))
    /\ UNCHANGED <<msg, result, frame>>

UpdateByOscPacket ==
    UpdateByOscPacketOf(PacketMsgs)

\* The record of a query that returned, without the record of the call
\* before it.
QueryRecord(l) ==
    [op |-> l.op, key |-> l.key, now |-> l.now, ret |-> l.ret]

IsQuery(l) ==
    l.op \in {"secs_since_note_on", "secs_since_measure", "playhead_position"}

\* A call of secs_since_note_on.
SecsSinceNoteOn ==
    /\ pc = "idle"
    /\ \E inst \in QueryInstruments : \E now \in clock..MaxClock :
        /\ clock' = now
        /\ last' = [op |-> "secs_since_note_on", key |-> inst, now |-> now,
                    ret |-> secs_since_note_on(CurrentState, inst, now),
                    before |-> last]
    /\ pc' = "returned"
    /\ UNCHANGED <<msg, result, note_ons, playhead_bangs, playhead_positions,
                   panicked, hist, frame>>

\* A call of secs_since_measure.
SecsSinceMeasure ==
    /\ pc = "idle"
    /\ \E meas \in QueryMeasures : \E now \in clock..MaxClock :
        /\ clock' = now
        /\ last' = [op |-> "secs_since_measure", key |-> meas, now |-> now,
                    ret |-> secs_since_measure(CurrentState, meas, now),
                    before |-> last]
    /\ pc' = "returned"
    /\ UNCHANGED <<msg, result, note_ons, playhead_bangs, playhead_positions,
                   panicked, hist, frame>>

\* A call of playhead_position: it does not read the clock.
PlayheadPositionOf ==
    /\ pc = "idle"
    /\ \E meas \in QueryMeasures :
        last' = [op |-> "playhead_position", key |-> meas, now |-> clock,
                 ret |-> playhead_position(CurrentState, meas),
                 before |-> last]
    /\ pc' = "returned"
    /\ UNCHANGED <<msg, result, note_ons, playhead_bangs, playhead_positions,
                   clock, panicked, hist, frame>>

\* The caller goes on: it keeps what a query returned until its next call and
\* drops the arguments of an update.
Resume ==
    /\ pc = "returned"
    /\ pc' = "idle"
    /\ last' = IF IsQuery(last) THEN QueryRecord(last) ELSE [op |-> "none"]
    /\ UNCHANGED <<msg, result, note_ons, playhead_bangs, playhead_positions,
                   clock, panicked, hist, frame>>

Next ==
    \/ UpdateByEvents
    \/ UpdateByOscPacket
    \/ Resume

Spec == Init /\ [][Next]_vars

\* A caller that updates the State by batches of events and queries it.
NextQuery ==
    \/ UpdateByEvents
    \/ SecsSinceNoteOn
    \/ SecsSinceMeasure
    \/ PlayheadPositionOf
    \/ Resume

SpecQuery == Init /\ [][NextQuery]_vars

----------------------------------------------------------------------------
(* C2: when update_by_osc_packet is given a packet of several messages of  *)
(* which one is malformed, the events of every other, well-formed message  *)
(* of the packet, before or after the malformed one, are applied to the    *)
(* State: after the call each of their NoteOn and PlayheadBang keys holds  *)
(* an Instant no earlier than the one of its message, and each of their    *)
(* PlayheadPosition keys holds the value of the last such event.           *)

\* The message decodes to its events without a fault.
WellFormed(m) ==
    LET decoded == osc_msg_to_events(m)
    IN  decoded.returned /\ decoded.stderr = <<>>

\* A well-formed message after the k-th of the packet sets the position of
\* the measure again.
PositionSetLater(packet, k, meas) ==
    \E j \in (k + 1)..Len(packet) :
        /\ WellFormed(packet[j])
        /\ \E i \in 1..Len(osc_msg_to_events(packet[j]).events) :
            LET e == osc_msg_to_events(packet[j]).events[i]
            IN  e.kind = "PlayheadPosition" /\ e.meas = meas

\* The event e of the k-th message of the packet shows in the State.
Applied(e, packet, k, times) ==
    CASE e.kind = "NoteOn" ->
            e.inst \in DOMAIN note_ons /\ note_ons[e.inst] >= times[k]
      [] e.kind = "PlayheadBang" ->
            e.meas \in DOMAIN playhead_bangs /\ playhead_bangs[e.meas] >= times[k]
      [] e.kind = "PlayheadPosition" ->
            /\ e.meas \in DOMAIN playhead_positions
            /\ PositionSetLater(packet, k, e.meas) \/ playhead_positions[e.meas] = e.pos

C2_MalformedMessageIsIsolated ==
    (/\ last.op = "update_by_osc_packet"
     /\ Len(last.packet) >= 2
     /\ \E j \in 1..Len(last.packet) : ~WellFormed(last.packet[j]))
    =>  \A k \in 1..Len(last.packet) :
            WellFormed(last.packet[k]) =>
                \A i \in 1..Len(osc_msg_to_events(last.packet[k]).events) :
                    Applied(osc_msg_to_events(last.packet[k]).events[i],
                            last.packet, k, last.times)

(***************************************************************************)
(* The freshness queries.                                                  *)
(***************************************************************************)

\* The events and the keys of a caller that writes time stamps itself.
PubEvents == {NoteOn("Kick"), PlayheadBang("Bar")}
PubInstruments == {"Kick"}
PubMeasures == {"Bar"}

UpdateByPubEvents ==
    UpdateByEventsOf(PubEvents)

\* note_ons is a public field of State: a caller inserts an Instant of its
\* choice, one later than the clock's reading included.
SetNoteOn ==
    /\ pc = "idle"
    /\ \E inst \in PubInstruments : \E then \in 0..MaxClock :
        note_ons' = insert(note_ons, inst, then)
    /\ UNCHANGED <<msg, result, pc, playhead_bangs, playhead_positions,
                   clock, panicked, last, hist, frame>>

\* playhead_bangs is a public field of State.
SetPlayheadBang ==
    /\ pc = "idle"
    /\ \E meas \in PubMeasures : \E then \in 0..MaxClock :
        playhead_bangs' = insert(playhead_bangs, meas, then)
    /\ UNCHANGED <<msg, result, pc, note_ons, playhead_positions,
                   clock, panicked, last, hist, frame>>

\* A caller that also writes the time stamps itself.
NextPub ==
    \/ UpdateByPubEvents
    \/ SetNoteOn
    \/ SetPlayheadBang
    \/ SecsSinceNoteOn
    \/ SecsSinceMeasure
    \/ Resume

SpecPub == Init /\ [][NextPub]_vars

\* What a freshness query is to return for a key, the store holding `stamps`.
FreshnessOf(stamps, key, now) ==
    IF key \notin DOMAIN stamps THEN None
    ELSE IF stamps[key] > now THEN None
    ELSE Some(now - stamps[key])

\* C11: when secs_since_note_on or secs_since_measure has returned, it has
\* returned None if the mapping has no entry for the key or if the stored
\* timestamp is strictly after the query time, and the query time minus the
\* stored timestamp otherwise; a returned duration is never negative.
C11_FreshnessQuery ==
    /\ (pc = "returned" /\ last.op = "secs_since_note_on") =>
           /\ last.ret = FreshnessOf(note_ons, last.key, last.now)
           /\ last.ret.some => last.ret.val >= 0
    /\ (pc = "returned" /\ last.op = "secs_since_measure") =>
           /\ last.ret = FreshnessOf(playhead_bangs, last.key, last.now)
           /\ last.ret.some => last.ret.val >= 0

\* A query that found a timestamp later than its own reading of the clock.
C11_Witness ==
    /\ pc = "returned"
    /\ last.op = "secs_since_note_on"
    /\ last.key \in DOMAIN note_ons
    /\ note_ons[last.key] > last.now
    /\ last.ret = None

\* A query that returned a positive duration for a measure.
C11_WitnessElapsed ==
    /\ pc = "returned"
    /\ last.op = "secs_since_measure"
    /\ last.ret = Some(2)

\* C12: secs_since_note_on(inst) returns None as long as no update has
\* applied a NoteOn(inst); once one has, every query returns a duration that
\* is not negative; and of two queries for one instrument with no update
\* between them, the one at the strictly later time returns the strictly
\* longer duration.
C12_NoteOnFreshness ==
    (pc = "returned" /\ last.op = "secs_since_note_on") =>
        /\ last.key \notin hist.noted => last.ret = None
        /\ last.key \in hist.noted => (last.ret.some /\ last.ret.val >= 0)
        /\ ( /\ last.before.op = "secs_since_note_on"
             /\ last.before.key = last.key
             /\ last.before.ret.some
             /\ last.before.now < last.now )
           => (last.ret.some /\ last.ret.val > last.before.ret.val)

\* Two queries for an instrument a NoteOn was applied for, the second later
\* than the first.
C12_Witness ==
    /\ pc = "returned"
    /\ last.op = "secs_since_note_on"
    /\ last.key \in hist.noted
    /\ last.before.op = "secs_since_note_on"
    /\ last.before.key = last.key
    /\ last.before.ret = Some(0)
    /\ last.ret = Some(1)

\* A query for an instrument no NoteOn was applied for, after updates for
\* other instruments.
C12_WitnessNone ==
    /\ pc = "returned"
    /\ last.op = "secs_since_note_on"
    /\ last.key \notin hist.noted
    /\ hist.noted # {}
    /\ last.ret = None

(***************************************************************************)
(* The time stamps of a batch.                                             *)
(***************************************************************************)

\* The time stamps the State holds for the instruments and the measures that
\* the NoteOn and PlayheadBang events of a batch mention.
StampsOf(events) ==
    {note_ons[events[k].inst] :
        k \in {j \in 1..Len(events) : events[j].kind = "NoteOn"}}
    \cup
    {playhead_bangs[events[k].meas] :
        k \in {j \in 1..Len(events) : events[j].kind = "PlayheadBang"}}

\* What the freshness queries return at time T for the keys of a batch.
FreshnessesOf(events, T) ==
    {secs_since_note_on(CurrentState, events[k].inst, T) :
        k \in {j \in 1..Len(events) : events[j].kind = "NoteOn"}}
    \cup
    {secs_since_measure(CurrentState, events[k].meas, T) :
        k \in {j \in 1..Len(events) : events[j].kind = "PlayheadBang"}}

\* C13: when a call of update_by_events has returned, the entries of
\* note_ons and playhead_bangs for all the keys its batch mentions hold one
\* and the same time stamp, the one reading of the clock of the call, and
\* freshness queries made at one time for these keys return one and the same
\* duration.
C13_BatchSharesTimestamp ==
    (pc = "returned" /\ last.op = "update_by_events") =>
        /\ StampsOf(last.events) \subseteq {last.now}
        /\ \A T \in clock..MaxClock :
               FreshnessesOf(last.events, T) \subseteq {Some(T - last.now)}

\* A batch of a NoteOn and a PlayheadBang applied to a State that held an
\* older stamp for the instrument.
C13_Witness ==
    /\ pc = "returned"
    /\ last.op = "update_by_events"
    /\ last.events = <<NoteOn("Kick"), PlayheadBang("Bar")>>
    /\ last.now = 1
    /\ "Ride" \in DOMAIN note_ons
    /\ note_ons["Ride"] = 0
    /\ StampsOf(last.events) = {1}

\* C14: no step of a sequence of update_by_events and update_by_osc_packet
\* calls lowers the time stamp that note_ons holds for an instrument or
\* playhead_bangs holds for a measure: an overwrite stores a stamp greater
\* than or equal to the one it replaces.
C14_StampsNeverDecrease ==
    [][ /\ \A inst \in DOMAIN note_ons \cap DOMAIN note_ons' :
               note_ons'[inst] >= note_ons[inst]
        /\ \A meas \in DOMAIN playhead_bangs \cap DOMAIN playhead_bangs' :
               playhead_bangs'[meas] >= playhead_bangs[meas] ]_vars

\* A packet of two messages that hold the same NoteOn, applied at two
\* different times: the second overwrites the stamp of the first.
C14_Witness ==
    /\ pc = "returned"
    /\ last.op = "update_by_osc_packet"
    /\ Len(last.packet) = 2
    /\ last.packet[1] = last.packet[2]
    /\ osc_msg_to_events(last.packet[1]).events = <<NoteOn("Kick")>>
    /\ last.start = 0
    /\ last.times = <<1, 2>>
    /\ note_ons["Kick"] = 2

(***************************************************************************)
(* A producer and readers of one State.  update_by_events borrows the      *)
(* State as `&mut self` and the queries borrow it as `&self`: a shared     *)
(* borrow is granted only while no exclusive borrow is live.  Here the     *)
(* call of update_by_events is followed one event at a time.               *)
(***************************************************************************)

\* A borrow check that grants `&self` during a call that holds `&mut self`.
shared_borrow_unchecked(p) ==
    p \in {"idle", "updating"}

\* `&self` is granted when no call that holds `&mut self` is running.
shared_borrow(p) ==
    p = "idle"

\* update_by_events is entered: it reads the clock, once.
BeginUpdate ==
    /\ pc = "idle"
    /\ last.op = "none"
    /\ \E n \in 0..MaxBatch : \E events \in [1..n -> PubEvents] :
       \E now \in clock..MaxClock :
        /\ frame' = [events |-> events, now |-> now, k |-> 1,
                     before |-> CurrentState]
        /\ clock' = now
    /\ pc' = "updating"
    /\ UNCHANGED <<msg, result, note_ons, playhead_bangs, playhead_positions,
                   panicked, last, hist>>

\* One turn of the `for event in events` loop.
ApplyNext ==
    /\ pc = "updating"
    /\ last.op = "none"
    /\ frame.k <= Len(frame.events)
    /\ LET st == apply_event(CurrentState, frame.events[frame.k], frame.now)
       IN  /\ note_ons' = st.note_ons
           /\ playhead_bangs' = st.playhead_bangs
           /\ playhead_positions' = st.playhead_positions
    /\ frame' = [frame EXCEPT !.k = @ + 1]
    /\ UNCHANGED <<msg, result, pc, clock, panicked, last, hist>>

\* The loop is over: update_by_events returns and its borrow ends.
EndUpdate ==
    /\ pc = "updating"
    /\ last.op = "none"
    /\ frame.k > Len(frame.events)
    /\ pc' = "idle"
    /\ hist' = Remember(hist, frame.events)
    /\ UNCHANGED <<msg, result, note_ons, playhead_bangs, playhead_positions,
                   clock, panicked, last, frame>>

\* The State before the batch that was entered last, and the State with the
\* whole batch applied.
BeforeBatch ==
    IF frame = NoFrame THEN CurrentState ELSE frame.before

AfterBatch ==
    IF frame = NoFrame THEN CurrentState
    ELSE update_by_events(frame.before, frame.events, frame.now)

\* A reader borrows the State and reads it: what the three queries return
\* is a function of the three maps it sees.
Read ==
    /\ shared_borrow(pc)
    /\ last.op = "none"
    /\ last' = [op |-> "read", seen |-> CurrentState,
                none_applied |-> BeforeBatch, all_applied |-> AfterBatch,
                events |-> IF frame = NoFrame THEN <<>> ELSE frame.events]
    /\ UNCHANGED <<msg, result, pc, note_ons, playhead_bangs,
                   playhead_positions, clock, panicked, hist, frame>>

\* The reader is done with what it read.
ReadDone ==
    /\ last.op = "read"
    /\ last' = [op |-> "none"]
    /\ UNCHANGED <<msg, result, pc, note_ons, playhead_bangs,
                   playhead_positions, clock, panicked, hist, frame>>

NextShared ==
    \/ BeginUpdate
    \/ ApplyNext
    \/ EndUpdate
    \/ Read
    \/ ReadDone

SpecShared == Init /\ [][NextShared]_vars

\* C15: what a reader sees of the State is the State with none of the events
\* of the producer's batch applied or the State with all of them applied,
\* each NoteOn and PlayheadBang of the batch with the one time stamp of the
\* batch.
C15_BatchAppearsAtomic ==
    last.op = "read" =>
        last.seen \in {last.none_applied, last.all_applied}

\* A reader that reads after a batch of two events: it sees both, with
\* one stamp, in a State that held neither before the batch.
C15_Witness ==
    /\ last.op = "read"
    /\ last.events = <<NoteOn("Kick"), PlayheadBang("Bar")>>
    /\ last.none_applied.note_ons = <<>>
    /\ last.none_applied.playhead_bangs = <<>>
    /\ last.seen = last.all_applied
    /\ last.seen.note_ons["Kick"] = 1
    /\ last.seen.playhead_bangs["Bar"] = 1

(***************************************************************************)
(* The entries of the three maps.                                          *)
(***************************************************************************)

\* C16: no step of a sequence of updates and queries removes an entry: every
\* key of note_ons, of playhead_bangs and of playhead_positions is a key of
\* the same map after the step; and a query that returned a value for a key
\* returns a value when it is asked again for that key.
C16_EntriesAreNeverRemoved ==
    [][ /\ DOMAIN note_ons \subseteq DOMAIN note_ons'
        /\ DOMAIN playhead_bangs \subseteq DOMAIN playhead_bangs'
        /\ DOMAIN playhead_positions \subseteq DOMAIN playhead_positions'
        /\ ( /\ pc = "idle"
             /\ pc' = "returned"
             /\ IsQuery(last')
             /\ last.op = last'.op
             /\ last.key = last'.key
             /\ last.ret.some )
           => last'.ret.some ]_vars

\* An update for one map and key applied to a State that holds other
\* entries in all three maps.
C16_Witness ==
    /\ pc = "returned"
    /\ last.op = "update_by_events"
    /\ last.events = <<PlayheadBang("Bar")>>
    /\ DOMAIN note_ons = {"Kick", "Ride"}
    /\ DOMAIN playhead_positions = {"Phrase"}
    /\ DOMAIN playhead_bangs = {"Bar"}
    /\ note_ons["Kick"] < playhead_bangs["Bar"]

\* A query answered with a value twice in a row.
C16_WitnessAskedAgain ==
    /\ pc = "returned"
    /\ last.op = "playhead_position"
    /\ last.before.op = "playhead_position"
    /\ last.before.key = last.key
    /\ last.before.ret.some
    /\ last.ret.some

\* The measures that the events of a batch give a position.
PlacedBy(events) ==
    {events[k].meas : k \in {j \in 1..Len(events) : events[j].kind = "PlayheadPosition"}}

\* C17: a call of update_by_events on PlayheadPosition events only leaves
\* note_ons and playhead_bangs as they are and changes playhead_positions
\* for the measures of these events only; and playhead_position(m) returns
\* the value of the last PlayheadPosition(m, _) event that was applied, None
\* if there was none.
C17_PositionIsOnlyStored ==
    [][ /\ ( /\ pc' = "returned"
             /\ last'.op = "update_by_events"
             /\ \A k \in 1..Len(last'.events) :
                    last'.events[k].kind = "PlayheadPosition" )
           => /\ note_ons' = note_ons
              /\ playhead_bangs' = playhead_bangs
              /\ \A m \in DOMAIN playhead_positions \ PlacedBy(last'.events) :
                     playhead_positions'[m] = playhead_positions[m]
              /\ \A m \in QueryMeasures, T \in clock'..MaxClock :
                     secs_since_measure(CurrentState', m, T) =
                         secs_since_measure(CurrentState, m, T)
        /\ (pc' = "returned" /\ last'.op = "playhead_position")
           => last'.ret = IF last'.key \in DOMAIN hist'.placed
                          THEN Some(hist'.placed[last'.key])
                          ELSE None ]_vars

\* A batch of two positions for one measure applied to a State that holds
\* time stamps: the second value is stored.
C17_Witness ==
    /\ pc = "returned"
    /\ last.op = "update_by_events"
    /\ last.events = <<PlayheadPosition("Phrase", 2), PlayheadPosition("Phrase", 1)>>
    /\ playhead_positions["Phrase"] = 1
    /\ "Kick" \in DOMAIN note_ons
    /\ "Bar" \in DOMAIN playhead_bangs
    /\ playhead_bangs["Bar"] < clock

\* playhead_position answered with the stored value and with None.
C17_WitnessQuery ==
    /\ pc = "returned"
    /\ last.op = "playhead_position"
    /\ last.key = "Phrase"
    /\ last.ret = Some(2)
    /\ last.before.op = "playhead_position"
    /\ last.before.key = "Bar"
    /\ last.before.ret = None
    /\ "Bar" \in DOMAIN playhead_bangs

(***************************************************************************)
(* The payload codes: Instrument::from_i32 and Measure::from_i32 applied   *)
(* to an integer.                                                          *)
(***************************************************************************)

Codes == (0 - MaxCode)..MaxCode

\* The integer the conversions are applied to.
Code == msg.args.val[1].v

InitCodes ==
    /\ \E i \in Codes : msg = Message("/jen", Some(<<OscInt(i)>>))
    /\ result = [asked |-> {}, instrument |-> None, measure |-> None]
    /\ pc = "call"
    /\ frame = NoFrame
    /\ EmptyState

InstrumentFromI32 ==
    /\ "Instrument" \notin result.asked
    /\ result' = [result EXCEPT !.asked = @ \cup {"Instrument"},
                                !.instrument = Instrument_from_i32(Code)]
    /\ UNCHANGED <<msg, pc, note_ons, playhead_bangs, playhead_positions,
                   clock, panicked, last, hist, frame>>

MeasureFromI32 ==
    /\ "Measure" \notin result.asked
    /\ result' = [result EXCEPT !.asked = @ \cup {"Measure"},
                                !.measure = Measure_from_i32(Code)]
    /\ UNCHANGED <<msg, pc, note_ons, playhead_bangs, playhead_positions,
                   clock, panicked, last, hist, frame>>

NextCodes ==
    \/ InstrumentFromI32
    \/ MeasureFromI32

SpecCodes == InitCodes /\ [][NextCodes]_vars

\* C18: Instrument::from_i32 returns the (i + 1)-th instrument for i in 0..7
\* and None for every other integer; Measure::from_i32 returns the (i + 1)-th
\* measure for i in 0..6 and None for every other integer; no two codes give
\* the same variant and every variant has a code; so the tags 100, 101, 102
\* and the negative integers are no codes of either.
C18_CodesAndTagsAreDisjoint ==
    /\ "Instrument" \in result.asked =>
           /\ result.instrument =
                  IF Code \in 0..7 THEN Some(InstrumentOfCode[Code + 1]) ELSE None
           /\ \A j \in Codes :
                  (result.instrument.some /\ Instrument_from_i32(j) = result.instrument)
                      => j = Code
           /\ (Code \in {NOTE_ON, PLAYHEAD_BANG, PLAYHEAD_POSITION} \/ Code < 0)
                  => result.instrument = None
    /\ "Measure" \in result.asked =>
           /\ result.measure =
                  IF Code \in 0..6 THEN Some(MeasureOfCode[Code + 1]) ELSE None
           /\ \A j \in Codes :
                  (result.measure.some /\ Measure_from_i32(j) = result.measure)
                      => j = Code
           /\ (Code \in {NOTE_ON, PLAYHEAD_BANG, PLAYHEAD_POSITION} \/ Code < 0)
                  => result.measure = None
    /\ {Instrument_from_i32(j).val : j \in 0..7} = Instrument
    /\ {Measure_from_i32(j).val : j \in 0..6} = Measure
    /\ Cardinality(Instrument) = 8
    /\ Cardinality(Measure) = 7

\* Both conversions applied to the tag of a playhead position block.
C18_Witness ==
    /\ Code = PLAYHEAD_POSITION
    /\ result.asked = {"Instrument", "Measure"}
    /\ result.instrument = None
    /\ result.measure = None

\* Both conversions applied to the last code of the measures.
C18_WitnessLastMeasure ==
    /\ Code = 6
    /\ result.asked = {"Instrument", "Measure"}
    /\ result.instrument = Some("Chordal")
    /\ result.measure = Some("SemiQuaver")

(***************************************************************************)
(* osc_msg_to_events followed one loop iteration at a time.  frame holds   *)
(* the locals: pos, the number of arguments the iterator has given out;    *)
(* arg; i, the counter of the for loop; events; loop, the loop whose next  *)
(* iteration is due; and, to speak of the scan, mark, the value of pos     *)
(* when the running iteration of the 'modes loop began, and calls, the     *)
(* number of calls of iter.next() so far.                                  *)
(***************************************************************************)

ScanArgVals ==
    {OscInt(1), OscInt(99), OscInt(NOTE_ON), OscInt(PLAYHEAD_BANG),
     OscInt(PLAYHEAD_POSITION), OscFloat(1), OscString(0)}

\* Every list of at most MaxLen of these arguments, under every address.
IsScanMsg(m) ==
    \E a \in Addrs, k \in 0..MaxLen : \E xs \in [1..k -> ScanArgVals] :
        m = Message(a, Some(xs))

\* A PLAYHEAD_POSITION tag, up to one full block of floats, and a tail of at
\* most MaxTail arguments.
IsScanPositionMsg(m) ==
    \E k \in 0..Measure_TOTAL_VARIANTS, j \in 0..MaxTail :
        \E tail \in [1..j -> ScanArgVals] :
            m = Message("/jen", Some(<<OscInt(PLAYHEAD_POSITION)>>
                                     \o [x \in 1..k |-> OscFloat(1)] \o tail))

InitScan ==
    /\ \/ IsScanMsg(msg)
       \/ IsScanPositionMsg(msg)
       \/ IsBareMsg(msg)
    /\ result = NotCalled
    /\ pc = "call"
    /\ frame = NoFrame
    /\ EmptyState

\* The call up to the head of the 'modes loop.
Enter ==
    /\ pc = "call"
    /\ IF ~addr_is_jen(msg.addr) \/ ~msg.args.some
       THEN /\ result' = Returned(<<>>, <<>>)
            /\ pc' = "done"
            /\ frame' = frame
       ELSE LET first == iter_next(msg.args.val, 0)
            IN  /\ frame' = [pos |-> first.pos, arg |-> first.item, i |-> 0,
                             events |-> <<>>, loop |-> "modes",
                             mark |-> first.pos, calls |-> 1]
                /\ pc' = "scanning"
                /\ result' = result
    /\ UNCHANGED <<msg, note_ons, playhead_bangs, playhead_positions,
                   clock, panicked, last, hist>>

\* The head of an iteration of the 'modes loop: `match arg`.
ModesIteration ==
    /\ pc = "scanning"
    /\ frame.loop = "modes"
    /\ IF ~frame.arg.some
       THEN /\ result' = Returned(frame.events, <<>>)
            /\ pc' = "done"
            /\ frame' = frame
       ELSE IF is_mode_header(frame.arg, NOTE_ON)
       THEN /\ frame' = [frame EXCEPT !.loop = "note_on", !.mark = frame.pos]
            /\ UNCHANGED <<result, pc>>
       ELSE IF is_mode_header(frame.arg, PLAYHEAD_BANG)
       THEN /\ frame' = [frame EXCEPT !.loop = "playhead_bang", !.mark = frame.pos]
            /\ UNCHANGED <<result, pc>>
       ELSE IF is_mode_header(frame.arg, PLAYHEAD_POSITION)
       THEN /\ frame' = [frame EXCEPT !.loop = "playhead_position", !.i = 0,
                                      !.mark = frame.pos]
            /\ UNCHANGED <<result, pc>>
       ELSE /\ result' = Returned(frame.events, <<frame.arg>>)
            /\ pc' = "done"
            /\ frame' = frame
    /\ UNCHANGED <<msg, note_ons, playhead_bangs, playhead_positions,
                   clock, panicked, last, hist>>

\* One iteration of the inner loop of the NOTE_ON arm.
NoteOnIteration ==
    /\ pc = "scanning"
    /\ frame.loop = "note_on"
    /\ LET n == iter_next(msg.args.val, frame.pos)
           inst == Instrument_from_i32(n.item.val.v)
       IN  IF is_payload_int(n.item)
           THEN IF ~inst.some
                THEN /\ result' = Panicked("unexpected instrument")
                     /\ pc' = "panicked"
                     /\ frame' = [frame EXCEPT !.pos = n.pos, !.calls = @ + 1]
                ELSE /\ frame' = [frame EXCEPT !.pos = n.pos, !.calls = @ + 1,
                                      !.events = Append(@, NoteOn(inst.val))]
                     /\ UNCHANGED <<result, pc>>
           ELSE /\ frame' = [frame EXCEPT !.pos = n.pos, !.calls = @ + 1,
                                 !.arg = n.item, !.loop = "modes"]
                /\ UNCHANGED <<result, pc>>
    /\ UNCHANGED <<msg, note_ons, playhead_bangs, playhead_positions,
                   clock, panicked, last, hist>>

\* One iteration of the inner loop of the PLAYHEAD_BANG arm.
PlayheadBangIteration ==
    /\ pc = "scanning"
    /\ frame.loop = "playhead_bang"
    /\ LET n == iter_next(msg.args.val, frame.pos)
           measure == Measure_from_i32(n.item.val.v)
       IN  IF is_payload_int(n.item)
           THEN IF ~measure.some
                THEN /\ result' = Panicked("unexpected measure")
                     /\ pc' = "panicked"
                     /\ frame' = [frame EXCEPT !.pos = n.pos, !.calls = @ + 1]
                ELSE /\ frame' = [frame EXCEPT !.pos = n.pos, !.calls = @ + 1,
                                      !.events = Append(@, PlayheadBang(measure.val))]
                     /\ UNCHANGED <<result, pc>>
           ELSE /\ frame' = [frame EXCEPT !.pos = n.pos, !.calls = @ + 1,
                                 !.arg = n.item, !.loop = "modes"]
                /\ UNCHANGED <<result, pc>>
    /\ UNCHANGED <<msg, note_ons, playhead_bangs, playhead_positions,
                   clock, panicked, last, hist>>

\* One iteration of the for loop of the PLAYHEAD_POSITION arm; after the last
\* one the iteration of the 'modes loop ends with `arg = iter.next()`.
PlayheadPositionIteration ==
    /\ pc = "scanning"
    /\ frame.loop = "playhead_position"
    /\ LET measure == Measure_from_i32(frame.i)
           n == iter_next(msg.args.val, frame.pos)
           after == iter_next(msg.args.val, n.pos)
       IN  IF ~measure.some
           THEN /\ result' = Panicked("unexpected measure")
                /\ pc' = "panicked"
                /\ frame' = frame
           ELSE IF is_float(n.item)
           THEN IF frame.i + 1 < Measure_TOTAL_VARIANTS
                THEN /\ frame' = [frame EXCEPT !.pos = n.pos, !.calls = @ + 1,
                                      !.i = @ + 1,
                                      !.events = Append(@,
                                          PlayheadPosition(measure.val, n.item.val.v))]
                     /\ UNCHANGED <<result, pc>>
                ELSE /\ frame' = [frame EXCEPT !.pos = after.pos, !.calls = @ + 2,
                                      !.i = @ + 1,
                                      !.events = Append(@,
                                          PlayheadPosition(measure.val, n.item.val.v)),
                                      !.arg = after.item, !.loop = "modes"]
                     /\ UNCHANGED <<result, pc>>
           ELSE /\ frame' = [frame EXCEPT !.pos = n.pos, !.calls = @ + 1,
                                 !.arg = n.item, !.loop = "modes"]
                /\ UNCHANGED <<result, pc>>
    /\ UNCHANGED <<msg, note_ons, playhead_bangs, playhead_positions,
                   clock, panicked, last, hist>>

NextScan ==
    \/ Enter
    \/ ModesIteration
    \/ NoteOnIteration
    \/ PlayheadBangIteration
    \/ PlayheadPositionIteration

\* The call runs on its caller's thread: a step that can be taken is taken.
SpecScan == InitScan /\ [][NextScan]_vars /\ WF_vars(NextScan)

\* The call is over: it has returned or it has panicked.
ScanOver == pc \in {"done", "panicked"}

\* The scan by iterations returns what osc_msg_to_events returns.
ScanAgrees ==
    ScanOver => result = osc_msg_to_events(msg)

InnerLoops == {"note_on", "playhead_bang", "playhead_position"}

\* The number of arguments among the first n that are not mode tags.
NonTags(args, n) ==
    Cardinality({k \in 1..n : ~IsTag(args[k])})

\* The iterator is exhausted, its last call has returned None and the inner
\* loop is left for the head of the 'modes loop.
ExhaustedAfter(f) ==
    /\ f.pos = Len(msg.args.val)
    /\ ~f.arg.some
    /\ f.loop = "modes"

\* C19 as it is stated: every iteration of an inner block loop, and every
\* iteration of the 'modes loop that runs one, consumes at least one argument
\* from the iterator.
C19_EveryIterationConsumes ==
    [][ /\ (pc = "scanning" /\ frame.loop \in InnerLoops)
               => frame'.pos > frame.pos
        /\ (pc = "scanning" /\ frame.loop \in InnerLoops /\ frame'.loop = "modes")
               => frame'.pos > frame.mark ]_vars

\* C19, amended: osc_msg_to_events ends on every argument list, by returning
\* or by its panic.  The iterator only moves forward; an iteration of an inner
\* block loop consumes at least one argument or finds the iterator exhausted
\* and leaves the loop; an iteration of the 'modes loop that runs a block
\* consumes at least one argument or leaves the iterator exhausted, and one
\* that runs no block ends the scan; iter.next() is called at most once more
\* than there are arguments; and there are at most as many events as there
\* are arguments that are not mode tags.
C19_ScanEnds ==
    /\ [][ /\ (pc = "scanning" /\ frame.loop \in InnerLoops)
                  => \/ frame'.pos > frame.pos
                     \/ frame'.pos = frame.pos /\ ExhaustedAfter(frame')
           /\ (pc = "scanning" /\ frame.loop \in InnerLoops /\ frame'.loop = "modes")
                  => \/ frame'.pos > frame.mark
                     \/ ExhaustedAfter(frame')
           /\ ( /\ pc = "scanning"
                /\ frame.loop = "modes"
                /\ \A h \in {NOTE_ON, PLAYHEAD_BANG, PLAYHEAD_POSITION} :
                       ~is_mode_header(frame.arg, h) )
                  => pc' = "done" ]_vars
    /\ [](pc \in {"scanning", "done", "panicked"} /\ frame # NoFrame
              => /\ frame.pos <= Len(msg.args.val)
                 /\ frame.calls <= Len(msg.args.val) + 1
                 /\ Len(frame.events) <= NonTags(msg.args.val, frame.pos))
    /\ [](pc = "done" /\ frame = NoFrame => result.events = <<>>)
    /\ [](pc = "done" /\ frame # NoFrame
              => Len(result.events) <= NonTags(msg.args.val, Len(msg.args.val)))
    /\ <>ScanOver

\* A scan that is over after the iterator was found exhausted inside a
\* block that holds no payload: the tag that ends the message.
C19_Witness ==
    /\ pc = "done"
    /\ msg = Message("/jen", Some(<<OscInt(NOTE_ON), OscInt(1), OscInt(PLAYHEAD_BANG)>>))
    /\ frame.pos = 3
    /\ frame.mark = 3
    /\ frame.calls = 4
    /\ result.events = <<NoteOn("Kick")>>

(***************************************************************************)
(* Packets that hold messages without events.                              *)
(***************************************************************************)

\* Two messages that hold events and the messages that hold none: another
\* address, no arguments, a first argument that is no mode tag.
QuietPacketMsgs ==
    {Message("/jen", Some(<<OscInt(100), OscInt(1)>>)),
     Message("/jen", Some(<<OscInt(101), OscInt(2), OscInt(102), OscFloat(1)>>)),
     Message("/jen/x", Some(<<OscInt(100), OscInt(1)>>)),
     Message("/jen", None),
     Message("/jen", Some(<<OscInt(99), OscInt(100), OscInt(1)>>)),
     Message("/jen", Some(<<OscFloat(1), OscInt(102), OscFloat(2)>>))}

UpdateByQuietPacket ==
    UpdateByOscPacketOf(QuietPacketMsgs)

NextPacket ==
    \/ UpdateByQuietPacket
    \/ Resume

SpecPacket == Init /\ [][NextPacket]_vars

\* The messages C20 speaks of.
QuietMsg(m) ==
    \/ m.addr # "/jen"
    \/ ~m.args.some
    \/ Len(m.args.val) >= 1 /\ ~IsTag(m.args.val[1])

\* The indices of the other messages of a packet, in their order.
LoudIndices(packet) ==
    LET Loud(k) == ~QuietMsg(packet[k])
    IN  SelectSeq([k \in 1..Len(packet) |-> k], Loud)

\* The State that the other messages of the packet alone make of st, each
\* applied at the time it is applied at in the packet.
WithoutQuiet(st, packet, times) ==
    LET idx == LoudIndices(packet)
    IN  update_by_osc_packet(st, [j \in 1..Len(idx) |-> packet[idx[j]]],
                                 [j \in 1..Len(idx) |-> times[idx[j]]]).state

\* C20: a call of update_by_osc_packet leaves the three maps as the messages
\* of the packet that are not of these kinds make them: a message under
\* another address than /jen, a message without arguments and a /jen message
\* whose first argument is no mode tag change no key and no value; a packet
\* of such messages only leaves the State as it is.
C20_QuietMessagesChangeNothing ==
    [][ (pc = "idle" /\ last'.op = "update_by_osc_packet")
            => /\ CurrentState' = WithoutQuiet(CurrentState, last'.packet, last'.times)
               /\ (\A k \in 1..Len(last'.packet) : QuietMsg(last'.packet[k]))
                      => UNCHANGED <<note_ons, playhead_bangs, playhead_positions>>
      ]_vars

\* A packet of a message under another address and a /jen message that
\* starts with an unknown integer, applied later than the stamps the State
\* holds.
C20_Witness ==
    /\ pc = "returned"
    /\ last.op = "update_by_osc_packet"
    /\ last.packet = <<Message("/jen/x", Some(<<OscInt(100), OscInt(1)>>)),
                       Message("/jen", Some(<<OscInt(99), OscInt(100), OscInt(1)>>))>>
    /\ "Kick" \in DOMAIN note_ons
    /\ "Bar" \in DOMAIN playhead_bangs
    /\ "Phrase" \in DOMAIN playhead_positions
    /\ note_ons["Kick"] < last.times[1]

\* A packet of a message without arguments and a message that holds events.
C20_WitnessNoArgs ==
    /\ pc = "returned"
    /\ last.op = "update_by_osc_packet"
    /\ last.packet = <<Message("/jen", None),
                       Message("/jen", Some(<<OscInt(100), OscInt(1)>>))>>
    /\ last.times = <<1, 2>>
    /\ note_ons["Kick"] = 2

====
